---- MODULE Spec2Model ----
(***************************************************************************)
(* Model of src/supermarket_eda.py: one Streamlit script run ("render      *)
(* cycle") of main() is load_data, the sidebar filters, and the Dashboard  *)
(* methods in the order main() calls them.  A script run that raises stops *)
(* at the raising statement.  Strings are tuples of one-character strings, *)
(* so that title-casing, column-name normalisation and cell parsing are    *)
(* computed and not assumed.                                               *)
(***************************************************************************)
EXTENDS Integers, Sequences, FiniteSets, TLC

VARIABLES file, cache, reads, first, pc, err, widgets, df, sel, filtered,
          caption, kpis, charts, corr, monthly, insights, search

vars == <<file, cache, reads, first, pc, err, widgets, df, sel, filtered,
          caption, kpis, charts, corr, monthly, insights, search>>

(***************************************************************************)
(* Bounds of the model.                                                    *)
(***************************************************************************)
\* The most data rows a CSV file holds.
MaxRows == 3
\* The most data rows a long CSV file holds beside its filler rows.
MaxTailRows == 2

(***************************************************************************)
(* Strings.                                                                *)
(***************************************************************************)
Lowers == <<"a","b","c","d","e","f","g","h","i","j","k","l","m",
            "n","o","p","q","r","s","t","u","v","w","x","y","z">>
Uppers == <<"A","B","C","D","E","F","G","H","I","J","K","L","M",
            "N","O","P","Q","R","S","T","U","V","W","X","Y","Z">>
Digits == <<"0","1","2","3","4","5","6","7","8","9">>

IsLower(c) == \E i \in DOMAIN Lowers : Lowers[i] = c
IsUpper(c) == \E i \in DOMAIN Uppers : Uppers[i] = c
IsCased(c) == IsLower(c) \/ IsUpper(c)
IsDigit(c) == \E i \in DOMAIN Digits : Digits[i] = c

\* str.upper and str.lower of one character.
UpperChar(c) == IF IsLower(c) THEN Uppers[CHOOSE i \in DOMAIN Lowers : Lowers[i] = c] ELSE c
LowerChar(c) == IF IsUpper(c) THEN Lowers[CHOOSE i \in DOMAIN Uppers : Uppers[i] = c] ELSE c

\* str.lower.
lower(s) == [i \in DOMAIN s |-> LowerChar(s[i])]

\* str.title: a cased character that follows an uncased one (or starts the
\* string) is upper-cased, every other cased character is lower-cased.
title(s) ==
  [i \in DOMAIN s |->
     IF i = 1 \/ ~IsCased(s[i - 1]) THEN UpperChar(s[i]) ELSE LowerChar(s[i])]

\* str.strip: leading and trailing blanks removed.
RECURSIVE lstrip(_)
lstrip(s) == IF s # <<>> /\ Head(s) = " " THEN lstrip(Tail(s)) ELSE s
RECURSIVE rstrip(_)
rstrip(s) ==
  IF s # <<>> /\ s[Len(s)] = " " THEN rstrip(SubSeq(s, 1, Len(s) - 1)) ELSE s
strip(s) == rstrip(lstrip(s))

\* str.replace(' ', '_').
replace_space(s) == [i \in DOMAIN s |-> IF s[i] = " " THEN "_" ELSE s[i]]

\* df.columns.str.strip().str.lower().str.replace(' ', '_') of one name.
normalize(name) == replace_space(lower(strip(name)))

(***************************************************************************)
(* Cell values.                                                            *)
(***************************************************************************)
\* A float cell: NaN, or a number.
NaN == [nan |-> TRUE, v |-> 0]
Num(n) == [nan |-> FALSE, v |-> n]
\* A datetime cell: NaT, or a day, kept as a key that orders as the calendar.
NaT == [nat |-> TRUE, key |-> 0]
Day(k) == [nat |-> FALSE, key |-> k]
DateKey(y, m, d) == (y * 12 + (m - 1)) * 31 + (d - 1)
MonthOf(k) == k \div 31

AllDigits(s) == s # <<>> /\ \A i \in DOMAIN s : IsDigit(s[i])
DigitVal(c) == (CHOOSE i \in DOMAIN Digits : Digits[i] = c) - 1
RECURSIVE Decimal(_)
Decimal(s) ==
  IF s = <<>> THEN 0 ELSE 10 * Decimal(SubSeq(s, 1, Len(s) - 1)) + DigitVal(s[Len(s)])

\* A to_numeric that fills what it cannot parse with 0.
to_numeric_zero(cell) == IF AllDigits(cell) THEN Num(Decimal(cell)) ELSE Num(0)

\* pd.to_numeric(errors='coerce') of one cell: a number, or NaN for a blank
\* cell and for text that is not a number.
to_numeric(cell) == IF AllDigits(cell) THEN Num(Decimal(cell)) ELSE NaN

\* The places of "/" in a date cell.
Slashes(s) == {i \in DOMAIN s : s[i] = "/"}
DateFields(s) ==
  LET a == CHOOSE i \in Slashes(s) : \A j \in Slashes(s) : i <= j
      b == CHOOSE i \in Slashes(s) : \A j \in Slashes(s) : i >= j
  IN  <<SubSeq(s, 1, a - 1), SubSeq(s, a + 1, b - 1), SubSeq(s, b + 1, Len(s))>>
\* A cell pd.to_datetime parses: month/day/year.
IsDate(s) ==
  /\ Cardinality(Slashes(s)) = 2
  /\ \A k \in 1..3 : AllDigits(DateFields(s)[k])
  /\ Decimal(DateFields(s)[1]) \in 1..12
  /\ Decimal(DateFields(s)[2]) \in 1..31
\* pd.to_datetime of one cell; a blank cell is NaT.  Only called on a cell
\* that is blank or a date: any other cell makes pd.to_datetime raise.
to_datetime(cell) ==
  IF cell = <<>> THEN NaT
  ELSE Day(DateKey(Decimal(DateFields(cell)[3]), Decimal(DateFields(cell)[1]),
                   Decimal(DateFields(cell)[2])))
DateParses(cell) == cell = <<>> \/ IsDate(cell)

(***************************************************************************)
(* Text of the CSV file and of the user's input.                           *)
(***************************************************************************)
cCity == <<"c","i","t","y">>
cCustomerType == <<"c","u","s","t","o","m","e","r","_","t","y","p","e">>
cGender == <<"g","e","n","d","e","r">>
cProductLine == <<"p","r","o","d","u","c","t","_","l","i","n","e">>
cPayment == <<"p","a","y","m","e","n","t">>
cRating == <<"r","a","t","i","n","g">>
cTotal == <<"t","o","t","a","l">>
cDate == <<"d","a","t","e">>
hCity == <<"C","i","t","y">>
hCustomerType == <<"C","u","s","t","o","m","e","r"," ","t","y","p","e">>
hGender == <<"G","e","n","d","e","r">>
hProductLine == <<"P","r","o","d","u","c","t"," ","l","i","n","e">>
hPayment == <<"P","a","y","m","e","n","t">>
hRating == <<"R","a","t","i","n","g">>
hTotal == <<" ","T","o","t","a","l">>
hDate == <<"D","a","t","e">>
Yangon == <<"Y","a","n","g","o","n">>
yangon == <<"y","a","n","g","o","n">>
Mandalay == <<"M","a","n","d","a","l","a","y">>
Paris == <<"P","a","r","i","s">>
Member == <<"M","e","m","b","e","r">>
Normal == <<"N","o","r","m","a","l">>
Female == <<"F","e","m","a","l","e">>
Male == <<"M","a","l","e">>
HealthAndBeauty == <<"H","e","a","l","t","h"," ","a","n","d"," ","b","e","a","u","t","y">>
Food == <<"F","o","o","d">>
Cash == <<"C","a","s","h">>
Ewallet == <<"E","w","a","l","l","e","t">>
t100 == <<"1","0","0">>
t50 == <<"5","0">>
t25 == <<"2","5">>
t10 == <<"1","0">>
abc == <<"a","b","c">>
r9 == <<"9">>
r7 == <<"7">>
r5 == <<"5">>
Jan5 == <<"1","/","5","/","2","0","1","9">>
Feb1 == <<"2","/","1","/","2","0","1","9">>
Mar8 == <<"3","/","8","/","2","0","1","9">>

\* The header row of the file: the columns the program uses, named as in
\* the file, the date column last.
HeaderWithDate ==
  <<hCity, hCustomerType, hGender, hProductLine, hPayment, hRating, hTotal, hDate>>
DropLast(s) == SubSeq(s, 1, Len(s) - 1)

\* The data rows a file is made of.  RowBadTotal has a total that is not a
\* number, RowBlankDate an empty date cell, RowBadDate a date that is not one.
RowA == <<Yangon, Member, Female, HealthAndBeauty, Cash, r9, t100, Jan5>>
RowB == <<Mandalay, Normal, Male, Food, Ewallet, r7, t50, Mar8>>
RowC == <<Mandalay, Normal, Male, Food, Cash, r5, t25, Jan5>>
RowBadTotal == <<yangon, Member, Female, Food, Ewallet, r7, abc, Feb1>>
RowBlankDate == <<Mandalay, Normal, Female, HealthAndBeauty, Cash, r5, t50, <<>>>>
RowBadDate == <<Mandalay, Member, Male, Food, Cash, r9, t25, abc>>
RowFill == <<Yangon, Normal, Male, Food, Cash, r7, t10, Jan5>>
RowPool == {RowA, RowB, RowC, RowBadTotal, RowBlankDate, RowBadDate}

\* A file with the rows rs, with or without its date column.
MkFile(rs, withDate) ==
  [header |-> IF withDate THEN HeaderWithDate ELSE DropLast(HeaderWithDate),
   rows |-> IF withDate THEN rs ELSE [i \in DOMAIN rs |-> DropLast(rs[i])]]
\* The sequences of 1..max rows of the set P.
RowSeqs(P, max) == UNION {[1..n -> P] : n \in 1..max}

\* The files of the model: with a date column, and without one.
SmallFiles ==
  {MkFile(rs, TRUE) : rs \in RowSeqs(RowPool, MaxRows)}
    \cup {MkFile(rs, FALSE) : rs \in RowSeqs({RowA, RowB, RowBadTotal}, MaxRows)}

\* The number of rows quick_insights sums as the last records.
TailWindow == 30
\* The long files: as many rows as the tail window of quick_insights or
\* more, the filler rows all of one date, before or after the data rows.
Fill == [i \in 1..(TailWindow - 1) |-> RowFill]
LongFiles ==
  {MkFile(rs \o Fill, TRUE) : rs \in RowSeqs({RowB, RowC}, MaxTailRows)}
    \cup {MkFile(Fill \o rs, TRUE) : rs \in RowSeqs({RowB, RowC}, MaxTailRows)}

\* The files that are rewritten on disk between the runs.
EditFiles == {MkFile(rs, d) : rs \in RowSeqs({RowA, RowBadDate}, MaxTailRows), d \in BOOLEAN}

\* The path main() loads.
Path == "supermarket_sales.csv"

(***************************************************************************)
(* Data frames: the column names, the dtype of each column, and the rows   *)
(* in order, each with its index label and its cells.                      *)
(***************************************************************************)
HasCol(d, name) == \E j \in DOMAIN d.columns : d.columns[j] = name
ColIdx(d, name) == CHOOSE j \in DOMAIN d.columns : d.columns[j] = name
Cell(d, r, name) == r.cells[ColIdx(d, name)]

\* pd.read_csv: a column whose cells are all numbers or blank is read as
\* floats (blank is NaN), any other column is kept as text.
IsNumericCol(rows, j) == \A i \in DOMAIN rows : rows[i][j] = <<>> \/ AllDigits(rows[i][j])
read_csv(f) ==
  [columns |-> f.header,
   dtypes |-> [j \in DOMAIN f.header |->
                 IF IsNumericCol(f.rows, j) THEN "float64" ELSE "object"],
   rows |-> [i \in DOMAIN f.rows |->
               [idx |-> i - 1,
                cells |-> [j \in DOMAIN f.header |->
                             IF IsNumericCol(f.rows, j) THEN to_numeric(f.rows[i][j])
                             ELSE f.rows[i][j]]]]]

\* df[name] = column: the cells of the column name replaced, with their dtype.
SetCol(d, name, dtype, column) ==
  LET j == ColIdx(d, name) IN
  [d EXCEPT !.dtypes[j] = dtype,
            !.rows = [i \in DOMAIN d.rows |-> [d.rows[i] EXCEPT !.cells[j] = column[i]]]]
\* The dtype of a column.
DType(d, name) == d.dtypes[ColIdx(d, name)]

\* The body of load_data, lines 20..25.
NormalizeColumns(d) == [d EXCEPT !.columns = [j \in DOMAIN d.columns |-> normalize(d.columns[j])]]
EpochDay(x) == IF x.nan THEN NaT ELSE Day(DateKey(1970, 1, 1))
\* The exception load_data raises on the file f, or "none".
LoadError(f) ==
  LET d == NormalizeColumns(read_csv(f)) IN
  IF /\ HasCol(d, cDate)
     /\ DType(d, cDate) = "object"
     /\ \E i \in DOMAIN d.rows : ~DateParses(Cell(d, d.rows[i], cDate))
  THEN "ValueError"
  ELSE IF ~HasCol(d, cTotal) THEN "KeyError" ELSE "none"
\* The data frame load_data returns on the file f, when it does not raise.
LoadBody(f) ==
  LET d0 == NormalizeColumns(read_csv(f))
      d1 == IF HasCol(d0, cDate)
            THEN SetCol(d0, cDate, "datetime64",
                        [i \in DOMAIN d0.rows |->
                           IF DType(d0, cDate) = "object"
                           THEN to_datetime(Cell(d0, d0.rows[i], cDate))
                           ELSE EpochDay(Cell(d0, d0.rows[i], cDate))])
            ELSE d0
  IN  SetCol(d1, cTotal, "float64",
             [i \in DOMAIN d1.rows |->
                IF DType(d1, cTotal) = "float64" THEN Cell(d1, d1.rows[i], cTotal)
                ELSE to_numeric(Cell(d1, d1.rows[i], cTotal))])

\* No value yet.
None == <<>>
NoFrame == [columns |-> <<>>, dtypes |-> <<>>, rows |-> <<>>]
NoCache == [p \in {} |-> NoFrame]

\* A load_data without its cache decorator: every call reads the file.
load_data_uncached ==
  /\ pc = "start"
  /\ reads' = reads + 1
  /\ IF LoadError(file) # "none"
     THEN /\ pc' = "raised"
          /\ err' = LoadError(file)
          /\ UNCHANGED <<first, df>>
     ELSE /\ df' = LoadBody(file)
          /\ first' = IF first = None THEN <<LoadBody(file)>> ELSE first
          /\ pc' = "loaded"
          /\ err' = err
  /\ UNCHANGED <<file, cache, widgets, sel, filtered, caption, kpis, charts,
                 corr, monthly, insights, search>>

\* @st.cache_data load_data(filepath), called at line 143: a path loaded
\* before is answered from the cache, any other is read, and cached when the
\* body returns.
load_data ==
  /\ pc = "start"
  /\ IF Path \in DOMAIN cache
     THEN /\ df' = cache[Path]
          /\ pc' = "loaded"
          /\ UNCHANGED <<cache, reads, first, err>>
     ELSE /\ reads' = reads + 1
          /\ IF LoadError(file) # "none"
             THEN /\ pc' = "raised"
                  /\ err' = LoadError(file)
                  /\ UNCHANGED <<cache, first, df>>
             ELSE /\ cache' = [p \in {Path} |-> LoadBody(file)]
                  /\ df' = LoadBody(file)
                  /\ first' = IF first = None THEN <<LoadBody(file)>> ELSE first
                  /\ pc' = "loaded"
                  /\ err' = err
  /\ UNCHANGED <<file, widgets, sel, filtered, caption, kpis, charts, corr,
                 monthly, insights, search>>


(***************************************************************************)
(* pandas reductions over a data frame.                                    *)
(***************************************************************************)
\* The rows at the places where a boolean mask is true, in order.
RECURSIVE Take(_, _)
Take(rows, mask) ==
  IF rows = <<>> THEN <<>>
  ELSE (IF Head(mask) THEN <<Head(rows)>> ELSE <<>>) \o Take(Tail(rows), Tail(mask))
\* The sequence s reversed.
Reverse(s) == [i \in DOMAIN s |-> s[Len(s) + 1 - i]]

\* A mask that answers the rows in reverse order.
Mask_reversed(d, mask) == [d EXCEPT !.rows = Reverse(Take(d.rows, mask))]
\* A mask that loses the first row it should keep.
Mask_drop_first(d, mask) ==
  [d EXCEPT !.rows = IF Take(d.rows, mask) = <<>> THEN <<>> ELSE Tail(Take(d.rows, mask))]

\* df[mask]: the rows of d where the boolean mask is true, in d's order,
\* with their index labels.
Mask(d, mask) == [d EXCEPT !.rows = Take(d.rows, mask)]
\* The mask of the rows of d whose cell in the column name is g.
Eq(d, name, g) == [i \in DOMAIN d.rows |-> Cell(d, d.rows[i], name) = g]

\* Series.unique(): the distinct values of a column.
unique(d, name) == {Cell(d, d.rows[i], name) : i \in DOMAIN d.rows}

\* Series.sum() of a float column over a sequence of rows: NaN cells are
\* skipped, and the sum of no cells is 0.
RECURSIVE SumCells(_, _)
SumCells(rows, j) ==
  IF rows = <<>> THEN 0
  ELSE (IF Head(rows).cells[j].nan THEN 0 ELSE Head(rows).cells[j].v)
         + SumCells(Tail(rows), j)
sum(d, name) == SumCells(d.rows, ColIdx(d, name))

\* The number of cells of a float column that are not NaN.
RECURSIVE CountCells(_, _)
CountCells(rows, j) ==
  IF rows = <<>> THEN 0
  ELSE (IF Head(rows).cells[j].nan THEN 0 ELSE 1) + CountCells(Tail(rows), j)

\* Series.mean(): NaN over no numbers, else the quotient sum / count, kept
\* as the pair.
mean(d, name) ==
  LET n == CountCells(d.rows, ColIdx(d, name)) IN
  IF n = 0 THEN [nan |-> TRUE, num |-> 0, den |-> 1]
  ELSE [nan |-> FALSE, num |-> sum(d, name), den |-> n]

\* df.groupby(by)['total'].sum(): for each value of the column by, the sum of
\* total over its rows.
groupby_sum(d, by) ==
  [g \in unique(d, by) |-> sum(Mask(d, Eq(d, by, g)), cTotal)]

\* Series.value_counts(): for each value of the column, the rows that have it.
value_counts(d, name) ==
  [g \in unique(d, name) |-> Len(Mask(d, Eq(d, name, g)).rows)]

\* Series.min() and Series.max() of a datetime column: NaT cells are
\* skipped, and NaT is the answer over no dates.
DateKeys(d) ==
  {Cell(d, d.rows[i], cDate).key : i \in {k \in DOMAIN d.rows : ~Cell(d, d.rows[k], cDate).nat}}
date_min(d) ==
  IF DateKeys(d) = {} THEN NaT
  ELSE Day(CHOOSE k \in DateKeys(d) : \A o \in DateKeys(d) : k <= o)
date_max(d) ==
  IF DateKeys(d) = {} THEN NaT
  ELSE Day(CHOOSE k \in DateKeys(d) : \A o \in DateKeys(d) : k >= o)

\* Comparison of a datetime cell with a timestamp: False on NaT.
DateGE(c, t) == ~c.nat /\ c.key >= t.key
\* An end of the date range that leaves the last day out.
DateLE_strict(c, t) == ~c.nat /\ c.key < t.key
DateLE(c, t) == ~c.nat /\ c.key <= t.key

(***************************************************************************)
(* The sidebar of main().                                                  *)
(***************************************************************************)
\* The dates the user can pick in the date range widget.
PickDates == {[y |-> 2019, m |-> 1, d |-> 5], [y |-> 2019, m |-> 3, d |-> 8]}
\* pd.to_datetime of a picked datetime.date: the timestamp of that day.
PickTimestamp(p) == Day(DateKey(p.y, p.m, p.d))

NoSel == [dated |-> FALSE, start_date |-> NaT, end_date |-> NaT,
          city_filter |-> {}, product_filter |-> {}, gender_filter |-> {}]

\* The rows of d whose date is in [start, end]: line 150.
DateRange(d, start, end) ==
  Mask(d, [i \in DOMAIN d.rows |->
             /\ DateGE(Cell(d, d.rows[i], cDate), start)
             /\ DateLE(Cell(d, d.rows[i], cDate), end)])

\* Lines 146..150: with a date column, the date range widget and the date
\* filter.  The widget answers with the range the user picked; while the
\* user has picked only the first day of a range it answers with one date,
\* and the unpacking at line 149 raises.  The default range is NaT when no
\* row has a date; what the widget does with it is not fixed by the
\* program, so it may raise or answer.
date_filter ==
  /\ pc = "loaded"
  /\ IF ~HasCol(df, cDate)
     THEN /\ pc' = "date_filtered"
          /\ sel' = NoSel
          /\ UNCHANGED <<df, err, widgets>>
     ELSE \/ \E s \in PickDates, e \in PickDates :
               /\ PickTimestamp(s).key <= PickTimestamp(e).key
               /\ df' = DateRange(df, PickTimestamp(s), PickTimestamp(e))
               /\ sel' = [NoSel EXCEPT !.dated = TRUE,
                                       !.start_date = PickTimestamp(s),
                                       !.end_date = PickTimestamp(e)]
               /\ pc' = "date_filtered"
               /\ widgets' = TRUE
               /\ err' = err
          \/ /\ pc' = "raised"
             /\ err' = "ValueError"
             /\ widgets' = TRUE
             /\ UNCHANGED <<df, sel>>
          \/ /\ date_min(df).nat
             /\ pc' = "raised"
             /\ err' = "ValueError"
             /\ UNCHANGED <<df, sel, widgets>>
  /\ UNCHANGED <<file, cache, reads, first, filtered, caption, kpis, charts,
                 corr, monthly, insights, search>>

\* The rows of d whose city, product line and gender are selected: lines
\* 156..160.
isin(d, city_filter, product_filter, gender_filter) ==
  Mask(d, [i \in DOMAIN d.rows |->
             /\ Cell(d, d.rows[i], cCity) \in city_filter
             /\ Cell(d, d.rows[i], cProductLine) \in product_filter
             /\ Cell(d, d.rows[i], cGender) \in gender_filter])

\* Lines 152..160: the three multiselect widgets, whose options are the
\* values in df, and the filter by what the user selected.
cat_filter ==
  /\ pc = "date_filtered"
  /\ \E c \in SUBSET unique(df, cCity), p \in SUBSET unique(df, cProductLine),
        g \in SUBSET unique(df, cGender) :
       /\ sel' = [sel EXCEPT !.city_filter = c, !.product_filter = p,
                             !.gender_filter = g]
       /\ filtered' = isin(df, c, p, g)
  /\ widgets' = TRUE
  /\ pc' = "filtered"
  /\ UNCHANGED <<file, cache, reads, first, err, df, caption, kpis, charts,
                 corr, monthly, insights, search>>

\* Lines 162..165: the preview of the first rows and, with a date column,
\* the caption with the first and the last date, NaT when there is none.
preview ==
  /\ pc = "filtered"
  /\ caption' = IF HasCol(filtered, cDate)
                THEN <<[from |-> date_min(filtered), to |-> date_max(filtered)]>>
                ELSE None
  /\ pc' = "previewed"
  /\ UNCHANGED <<file, cache, reads, first, err, widgets, df, sel, filtered,
                 kpis, charts, corr, monthly, insights, search>>

(***************************************************************************)
(* The Dashboard methods, in the order main() calls them.  What matplotlib *)
(* and seaborn draw is not modelled, only the values handed to them.       *)
(***************************************************************************)
\* Dashboard.show_kpis.
show_kpis ==
  /\ pc = "previewed"
  /\ kpis' = <<[total_sales |-> sum(filtered, cTotal),
               average_rating |-> mean(filtered, cRating),
               transactions |-> Len(filtered.rows)]>>
  /\ pc' = "kpis"
  /\ UNCHANGED <<file, cache, reads, first, err, widgets, df, sel, filtered,
                 caption, charts, corr, monthly, insights, search>>

\* Dashboard.sales_by_product, sales_by_city, gender_comparison,
\* customer_type_breakdown and payment_distribution: the grouped sums and
\* the payment counts of the five charts.
sales_charts ==
  /\ pc = "kpis"
  /\ charts' = <<[by_product |-> groupby_sum(filtered, cProductLine),
                 by_city |-> groupby_sum(filtered, cCity),
                 by_gender |-> groupby_sum(filtered, cGender),
                 by_customer_type |-> groupby_sum(filtered, cCustomerType),
                 payments |-> value_counts(filtered, cPayment)]>>
  /\ pc' = "charts"
  /\ UNCHANGED <<file, cache, reads, first, err, widgets, df, sel, filtered,
                 caption, kpis, corr, monthly, insights, search>>

\* DataFrame.corr() of the float columns (select_dtypes): the coefficient
\* of two columns is a number when at least two rows have both cells and
\* neither column is constant over those rows, else NaN.  The model keeps
\* which coefficients are numbers, not their values.
NumericCols(d) == {d.columns[j] : j \in {k \in DOMAIN d.columns : d.dtypes[k] = "float64"}}
corr_defined(d, a, b) ==
  LET both == {i \in DOMAIN d.rows :
                 ~Cell(d, d.rows[i], a).nan /\ ~Cell(d, d.rows[i], b).nan}
      Varies(c) == \E i \in both, k \in both :
                      Cell(d, d.rows[i], c).v # Cell(d, d.rows[k], c).v
  IN  Cardinality(both) >= 2 /\ Varies(a) /\ Varies(b)

\* Dashboard.correlation_matrix.
correlation_matrix ==
  /\ pc = "charts"
  /\ corr' = <<[p \in NumericCols(filtered) \X NumericCols(filtered) |->
                 corr_defined(filtered, p[1], p[2])]>>
  /\ pc' = "corr"
  /\ UNCHANGED <<file, cache, reads, first, err, widgets, df, sel, filtered,
                 caption, kpis, charts, monthly, insights, search>>

\* df.resample('M', on='date')['total'].sum(): one sum for every month from
\* the first date's to the last date's, 0 for a month without rows.
resample_sum(d) ==
  IF DateKeys(d) = {} THEN <<>>
  ELSE [m \in MonthOf(date_min(d).key) .. MonthOf(date_max(d).key) |->
          sum(Mask(d, [i \in DOMAIN d.rows |->
                         /\ ~Cell(d, d.rows[i], cDate).nat
                         /\ MonthOf(Cell(d, d.rows[i], cDate).key) = m]), cTotal)]

\* Dashboard.monthly_sales_trend: nothing without a date column.
monthly_sales_trend ==
  /\ pc = "corr"
  /\ monthly' = IF HasCol(filtered, cDate) THEN <<resample_sum(filtered)>> ELSE None
  /\ pc' = "monthly"
  /\ UNCHANGED <<file, cache, reads, first, err, widgets, df, sel, filtered,
                 caption, kpis, charts, corr, insights, search>>

\* The order of text: by the code points of the characters.
Chars == <<" ", "/">> \o Digits \o Uppers \o <<"_">> \o Lowers
Ord(c) == CHOOSE i \in DOMAIN Chars : Chars[i] = c
RECURSIVE StrLess(_, _)
StrLess(a, b) ==
  IF b = <<>> THEN FALSE
  ELSE IF a = <<>> THEN TRUE
  ELSE IF Head(a) = Head(b) THEN StrLess(Tail(a), Tail(b))
  ELSE Ord(Head(a)) < Ord(Head(b))

\* Series.idxmax() of a grouped sum, whose labels are in sorted order: the
\* first label with the largest sum.  Raises ValueError on no label.
idxmax(series) ==
  CHOOSE g \in DOMAIN series :
    /\ \A o \in DOMAIN series : series[o] <= series[g]
    /\ \A o \in DOMAIN series : series[o] = series[g] => (o = g \/ StrLess(g, o))
\* The labels idxmax may answer on value_counts(), whose order among equal
\* counts is not fixed.
Modes(series) == {g \in DOMAIN series : \A o \in DOMAIN series : series[o] <= series[g]}
\* Series.max().
max(series) == series[idxmax(series)]

\* Row i comes strictly before row j in sort_values('date', ascending=False):
\* the later date first, NaT last.
Before(d, i, j) ==
  LET a == Cell(d, d.rows[i], cDate)
      b == Cell(d, d.rows[j], cDate)
  IN  ~a.nat /\ (b.nat \/ a.key > b.key)

\* The sets of k members of the set S of numbers.
RECURSIVE KSubsets(_, _)
KSubsets(S, k) ==
  IF k = 0 THEN {{}}
  ELSE UNION {{{x} \cup T : T \in KSubsets({y \in S : y > x}, k - 1)} : x \in S}

\* A head(30) of the frame as it is, not sorted by date.
Heads_unsorted(d) ==
  {1..(IF Len(d.rows) > TailWindow THEN TailWindow ELSE Len(d.rows))}

\* sort_values('date', ascending=False).head(30): the default sort is
\* quicksort, which fixes no order among rows of equal date, so head(30) is
\* any 30 positions (all, when there are fewer) that no other row comes
\* strictly before.
Heads(d) ==
  LET n == Len(d.rows)
      k == IF n > TailWindow THEN n - TailWindow ELSE 0
  IN  {(1..n) \ E : E \in {X \in KSubsets(1..n, k) :
                            \A i \in X, j \in (1..n) \ X : ~Before(d, i, j)}}

\* The sum of total over the rows at the positions P.
SumAt(d, P) == sum(Mask(d, [i \in DOMAIN d.rows |-> i \in P]), cTotal)

\* Dashboard.quick_insights: idxmax at line 102 raises ValueError on a
\* frame without rows, sort_values at line 106 raises KeyError on a frame
\* without a date column.
quick_insights ==
  /\ pc = "monthly"
  /\ IF Len(filtered.rows) = 0
     THEN /\ pc' = "raised"
          /\ err' = "ValueError"
          /\ UNCHANGED insights
     ELSE IF ~HasCol(filtered, cDate)
     THEN /\ pc' = "raised"
          /\ err' = "KeyError"
          /\ UNCHANGED insights
     ELSE /\ \E top_payment \in Modes(value_counts(filtered, cPayment)),
                latest \in Heads(filtered) :
               insights' =
                 <<[top_city |-> idxmax(groupby_sum(filtered, cCity)),
                    top_payment |-> top_payment,
                    top_product |-> title(idxmax(groupby_sum(filtered, cProductLine))),
                    top_product_sales |-> max(groupby_sum(filtered, cProductLine)),
                    last_30_total |-> SumAt(filtered, latest)]>>
          /\ pc' = "insights"
          /\ err' = err
  /\ UNCHANGED <<file, cache, reads, first, widgets, df, sel, filtered,
                 caption, kpis, charts, corr, monthly, search>>

\* What the user can type in the two search boxes.
YANGON == <<"Y","A","N","G","O","N">>
healthandbeauty == <<"h","e","a","l","t","h"," ","a","n","d"," ","b","e","a","u","t","y">>
CityTerms == {<<>>, YANGON, Paris}
ProductTerms == {<<>>, healthandbeauty}

\* A search that compares the term with the values as they are in the column.
Lookup_raw(d, name, term) ==
  IF term = <<>> THEN [kind |-> "none", total |-> 0]
  ELSE IF term \in unique(d, name)
  THEN [kind |-> "found", total |-> sum(Mask(d, Eq(d, name, term)), cTotal)]
  ELSE [kind |-> "not_found", total |-> 0]

\* One search of search_city_and_product, lines 124..129 and 130..135: no
\* message for an empty term, the sum of total over the rows whose
\* title-cased value is the term, or the warning that there is none.
Lookup(d, name, term) ==
  IF term = <<>> THEN [kind |-> "none", total |-> 0]
  ELSE IF term \in {title(v) : v \in unique(d, name)}
  THEN [kind |-> "found",
        total |-> sum(Mask(d, [i \in DOMAIN d.rows |->
                                 title(Cell(d, d.rows[i], name)) = term]), cTotal)]
  ELSE [kind |-> "not_found", total |-> 0]

\* Dashboard.search_city_and_product: the two text inputs, title-cased.
search_city_and_product ==
  /\ pc = "insights"
  /\ \E city_text \in CityTerms, product_text \in ProductTerms :
       search' = <<[city_text |-> city_text,
                   product_text |-> product_text,
                   city |-> Lookup(filtered, cCity, title(city_text)),
                   product |-> Lookup(filtered, cProductLine, title(product_text))]>>
  /\ pc' = "searched"
  /\ UNCHANGED <<file, cache, reads, first, err, widgets, df, sel, filtered,
                 caption, kpis, charts, corr, monthly, insights>>

\* Dashboard.download_data_button and the closing st.success of main().
download_data_button ==
  /\ pc = "searched"
  /\ pc' = "done"
  /\ UNCHANGED <<file, cache, reads, first, err, widgets, df, sel, filtered,
                 caption, kpis, charts, corr, monthly, insights, search>>

\* The user touches a widget of a finished or failed run: Streamlit runs the
\* script again from the top.  The cache outlives the run.
rerun ==
  /\ pc \in {"done", "raised"}
  /\ widgets
  /\ pc' = "start"
  /\ err' = "none"
  /\ widgets' = FALSE
  /\ df' = NoFrame
  /\ sel' = NoSel
  /\ filtered' = NoFrame
  /\ caption' = None
  /\ kpis' = None
  /\ charts' = None
  /\ corr' = None
  /\ monthly' = None
  /\ insights' = None
  /\ search' = None
  /\ UNCHANGED <<file, cache, reads, first>>

\* The file is rewritten on disk after it was loaded: its first data row is
\* replaced.
Rewritten(f) ==
  LET r == IF f.rows[1] = SubSeq(RowBadTotal, 1, Len(f.header))
           THEN RowA ELSE RowBadTotal
  IN  [f EXCEPT !.rows[1] = SubSeq(r, 1, Len(f.header))]
edit_file ==
  /\ pc \in {"done", "raised"}
  /\ Path \in DOMAIN cache
  /\ cache[Path] = LoadBody(file)
  /\ file' = Rewritten(file)
  /\ UNCHANGED <<cache, reads, first, pc, err, widgets, df, sel, filtered,
                 caption, kpis, charts, corr, monthly, insights, search>>

\* The state before the first run, the file being one of F.
Start(F) ==
  /\ file \in F
  /\ cache = NoCache
  /\ reads = 0
  /\ first = None
  /\ pc = "start"
  /\ err = "none"
  /\ widgets = FALSE
  /\ df = NoFrame
  /\ sel = NoSel
  /\ filtered = NoFrame
  /\ caption = None
  /\ kpis = None
  /\ charts = None
  /\ corr = None
  /\ monthly = None
  /\ insights = None
  /\ search = None

Init == Start(SmallFiles)
InitTail == Start(LongFiles)
InitEdit == Start(EditFiles)

\* One step of a run, or the start of the next run.
Next ==
  \/ load_data
  \/ date_filter
  \/ cat_filter
  \/ preview
  \/ show_kpis
  \/ sales_charts
  \/ correlation_matrix
  \/ monthly_sales_trend
  \/ quick_insights
  \/ search_city_and_product
  \/ download_data_button
  \/ rerun
\* The same, with the file changing on disk.
NextEdit == Next \/ edit_file

\* The runs over the small files.
Spec == Init /\ [][Next]_vars
\* The runs over the long files.
SpecTail == InitTail /\ [][Next]_vars
\* The runs over a file that is rewritten between them.
SpecEdit == InitEdit /\ [][NextEdit]_vars

(***************************************************************************)
(* The properties.                                                         *)
(***************************************************************************)
\* The filters of main() have run in this script run.
Filtered == filtered # NoFrame
\* The positions of the rows of a frame.
Rows(d) == DOMAIN d.rows
\* What a row's total adds to a sum: nothing when it is NaN.
Contribution(d, i) ==
  IF Cell(d, d.rows[i], cTotal).nan THEN 0 ELSE Cell(d, d.rows[i], cTotal).v
\* The sum of the contributions of the rows at the positions P.
RECURSIVE SumOver(_, _)
SumOver(d, P) ==
  IF P = {} THEN 0
  ELSE LET i == CHOOSE x \in P : TRUE
       IN  Contribution(d, i) + SumOver(d, P \ {i})
\* The positions of the rows of d with the value g in the column name.
WithValue(d, name, g) == {i \in Rows(d) : Cell(d, d.rows[i], name) = g}

\* The row r of the loaded frame D passes the user's selection.
Qualifies(D, r) ==
  /\ Cell(D, r, cCity) \in sel.city_filter
  /\ Cell(D, r, cProductLine) \in sel.product_filter
  /\ Cell(D, r, cGender) \in sel.gender_filter
  /\ HasCol(D, cDate) =>
       /\ ~Cell(D, r, cDate).nat
       /\ sel.start_date.key <= Cell(D, r, cDate).key
       /\ Cell(D, r, cDate).key <= sel.end_date.key

\* C1: the filtered set holds exactly the rows of the loaded dataset whose
\* city, product line and gender are selected and, when there is a date
\* column, whose date is in [start, end], both ends included.
C1_FilterExact ==
  Filtered =>
    LET D == cache[Path]
        Q == {k \in Rows(D) : Qualifies(D, D.rows[k])}
    IN  /\ {filtered.rows[i] : i \in Rows(filtered)} = {D.rows[k] : k \in Q}
        /\ Len(filtered.rows) = Cardinality(Q)
\* A date-filtered run that kept a row dated the last day of the range and
\* dropped another row.
C1_Witness ==
  /\ Filtered
  /\ sel.dated
  /\ Len(filtered.rows) < Len(cache[Path].rows)
  /\ \E i \in Rows(filtered) :
       Cell(filtered, filtered.rows[i], cDate).key = sel.end_date.key
  /\ sel.city_filter # {}

\* C2: when the filter yields no row, no step of the run raises.
C2_EmptyNoRaise == (Filtered /\ Len(filtered.rows) = 0) => pc # "raised"

\* C3: filtering leaves the loaded dataset as load_data returned it, and
\* the filtered rows are rows of it, in its order.
C3_NonDestructive ==
  Filtered =>
    /\ first # None
    /\ cache[Path] = first[1]
    /\ \A i \in Rows(filtered) :
         filtered.rows[i] = first[1].rows[filtered.rows[i].idx + 1]
    /\ \A i, j \in Rows(filtered) :
         i < j => filtered.rows[i].idx < filtered.rows[j].idx
\* A run that kept two rows or more and dropped a row that came before one
\* it kept.
C3_Witness ==
  /\ Filtered
  /\ Len(filtered.rows) >= 2
  /\ \E i \in Rows(filtered) : filtered.rows[i].idx >= i

\* The place of the total column in the file.
FileTotalCol == CHOOSE j \in DOMAIN file.header : normalize(file.header[j]) = cTotal

\* C4: a total that is not a number is NaN after the load, its row stays,
\* and the overall, grouped, tail-window and lookup sums of total count it
\* as 0.
C4_CoercedTotal ==
  /\ pc = "loaded" =>
       LET D == cache[Path] IN
       /\ Len(D.rows) = Len(file.rows)
       /\ \A i \in Rows(D) :
            IF AllDigits(file.rows[i][FileTotalCol])
            THEN Cell(D, D.rows[i], cTotal) = Num(Decimal(file.rows[i][FileTotalCol]))
            ELSE Cell(D, D.rows[i], cTotal) = NaN
  /\ pc = "kpis" => kpis[1].total_sales = SumOver(filtered, Rows(filtered))
  /\ pc = "charts" =>
         /\ \A g \in DOMAIN charts[1].by_product :
              charts[1].by_product[g] = SumOver(filtered, WithValue(filtered, cProductLine, g))
         /\ \A g \in DOMAIN charts[1].by_city :
              charts[1].by_city[g] = SumOver(filtered, WithValue(filtered, cCity, g))
         /\ \A g \in DOMAIN charts[1].by_gender :
              charts[1].by_gender[g] = SumOver(filtered, WithValue(filtered, cGender, g))
         /\ \A g \in DOMAIN charts[1].by_customer_type :
              charts[1].by_customer_type[g] =
                SumOver(filtered, WithValue(filtered, cCustomerType, g))
  /\ (pc = "insights" /\ Len(filtered.rows) <= TailWindow) =>
       insights[1].last_30_total = SumOver(filtered, Rows(filtered))
  /\ (pc = "searched" /\ search[1].city.kind = "found") =>
       search[1].city.total =
         SumOver(filtered, {i \in Rows(filtered) :
                              title(Cell(filtered, filtered.rows[i], cCity))
                                = title(search[1].city_text)})
  /\ (pc = "searched" /\ search[1].product.kind = "found") =>
       search[1].product.total =
         SumOver(filtered, {i \in Rows(filtered) :
                              title(Cell(filtered, filtered.rows[i], cProductLine))
                                = title(search[1].product_text)})
\* A finished run whose filtered set holds a row with the total "abc" beside
\* a row with a number, and whose city search found that row.
C4_Witness ==
  /\ pc = "done"
  /\ kpis[1].total_sales > 0
  /\ search[1].city.kind = "found"
  /\ \E i \in Rows(filtered) :
       /\ file.rows[filtered.rows[i].idx + 1][FileTotalCol] = abc
       /\ Cell(filtered, filtered.rows[i], cTotal).nan
       /\ title(Cell(filtered, filtered.rows[i], cCity)) = title(search[1].city_text)

\* The file has a date column with a cell that is neither blank nor a date.
FileDateCols == {j \in DOMAIN file.header : normalize(file.header[j]) = cDate}
BadDateRows == {i \in DOMAIN file.rows : \E j \in FileDateCols : ~DateParses(file.rows[i][j])}

\* C5: a cell that fails date parsing does not make the load raise: its row
\* is kept, with NaT for its date.
C5_BadDateCoerced ==
  (pc # "start" /\ BadDateRows # {}) =>
    /\ Path \in DOMAIN cache
    /\ Len(cache[Path].rows) = Len(file.rows)
    /\ \A i \in BadDateRows : Cell(cache[Path], cache[Path].rows[i], cDate) = NaT

\* C6: over the runs the file is read at most once, and every load returns
\* the dataset the first load returned.
C6_LoadOnce ==
  /\ reads <= 1
  /\ Path \in DOMAIN cache => (first # None /\ cache[Path] = first[1])
  /\ pc = "loaded" => (first # None /\ df = first[1])
\* A later run has loaded the dataset although the file on disk now reads
\* as another one.
C6_Witness ==
  /\ pc = "loaded"
  /\ reads = 1
  /\ LoadError(file) = "none"
  /\ LoadBody(file) # df

\* The date of the row at position i of d is not later than that of the row
\* at position j; NaT counts as the earliest.
NotLater(d, i, j) ==
  \/ Cell(d, d.rows[i], cDate).nat
  \/ /\ ~Cell(d, d.rows[j], cDate).nat
     /\ Cell(d, d.rows[i], cDate).key <= Cell(d, d.rows[j], cDate).key
\* The first TailWindow positions of d by date descending, rows of equal
\* date in their original order.
StableHead(d) ==
  {i \in Rows(d) :
     Cardinality({j \in Rows(d) : \/ ~NotLater(d, j, i)
                                  \/ (NotLater(d, i, j) /\ j < i)}) < TailWindow}

\* C7 as stated: the tail-window sum is the sum over the 30 latest rows,
\* rows of equal date taken in their original order.
C7_StableTail ==
  insights # None => insights[1].last_30_total = SumOver(filtered, StableHead(filtered))
\* C7 as amended: the tail-window sum is the sum over 30 rows none of which
\* is earlier than a row left out, and over all the rows when there are 30
\* or fewer.
C7_TailSum ==
  insights # None =>
    LET n == Len(filtered.rows)
        k == IF n > TailWindow THEN n - TailWindow ELSE 0
    IN  /\ \E X \in KSubsets(1..n, k) :
             /\ \A i \in X, j \in (1..n) \ X : NotLater(filtered, i, j)
             /\ insights[1].last_30_total = SumOver(filtered, (1..n) \ X)
        /\ n <= TailWindow => insights[1].last_30_total = SumOver(filtered, 1..n)
\* More than 30 rows, and a sum that is not the one the original order of
\* the rows of equal date gives.
C7_Witness ==
  /\ insights # None
  /\ Len(filtered.rows) > TailWindow
  /\ insights[1].last_30_total # SumOver(filtered, StableHead(filtered))

\* The outcome out of the search for text in the column name is the one
\* the claim gives.
SearchOutcome(text, name, out) ==
  LET M == {i \in Rows(filtered) :
              title(Cell(filtered, filtered.rows[i], name)) = title(text)}
  IN  IF text = <<>> THEN out.kind = "none"
      ELSE IF M # {} THEN out.kind = "found" /\ out.total = SumOver(filtered, M)
      ELSE out.kind = "not_found"

\* C8: a search does not raise; an empty term gives no message, a term
\* whose title-case equals a title-cased value of the filtered set gives the
\* sum of total over the rows that match, any other term gives not found.
C8_Lookup ==
  search # None =>
    /\ pc \in {"searched", "done"}
    /\ err = "none"
    /\ SearchOutcome(search[1].city_text, cCity, search[1].city)
    /\ SearchOutcome(search[1].product_text, cProductLine, search[1].product)
\* The term "YANGON" found a row whose city is written "yangon", and the
\* product term was found too.
C8_Witness ==
  /\ search # None
  /\ search[1].city.kind = "found"
  /\ search[1].product.kind = "found"
  /\ \E i \in Rows(filtered) : Cell(filtered, filtered.rows[i], cCity) = yangon

\* The filter of main(), lines 146..160, with the selection of this run.
Refilter(d) ==
  isin(IF HasCol(d, cDate) THEN DateRange(d, sel.start_date, sel.end_date) ELSE d,
       sel.city_filter, sel.product_filter, sel.gender_filter)

\* C9: filtering the filtered set again with the same selection gives the
\* same rows in the same order.
C9_Idempotent == Filtered => Refilter(filtered) = filtered
\* A run that kept a row and dropped a row.
C9_Witness ==
  /\ Filtered
  /\ Len(filtered.rows) >= 1
  /\ Len(filtered.rows) < Len(cache[Path].rows)

\* C10: without a date column a run does not raise (here: a run whose
\* filtered set has rows).
C10_NoDateCompletes ==
  (Filtered /\ ~HasCol(filtered, cDate) /\ Len(filtered.rows) > 0) => pc # "raised"
====
